---- MODULE Spec2Model ----
(***************************************************************************)
(* Model of apac_mena_monitor.py: the noise / region / signal gates, the   *)
(* scorer, the sort-and-walk deduplication of harvest() and the replay     *)
(* logic of build_feed().  Texts are strings; the regular expressions of   *)
(* the source are modelled by what they match on those strings.            *)
(***************************************************************************)
EXTENDS Integers, Sequences, FiniteSets, TLC

(***************************************************************************)
(* Strings                                                                 *)
(***************************************************************************)
UpperChars == "ABCDEFGHIJKLMNOPQRSTUVWXYZ"
LowerChars == "abcdefghijklmnopqrstuvwxyz"
DigitChars == "0123456789"

Ch(s, i) == SubSeq(s, i, i)

CharSet(s) == { Ch(s, i) : i \in 1..Len(s) }

\* re: \w (ASCII letters, digits, underscore)
WordChars == CharSet(UpperChars) \cup CharSet(LowerChars) \cup CharSet(DigitChars) \cup {"_"}

\* re: \s (the whitespace that the bounded texts can hold)
SpaceChars == {" "}

LowerMap == [i \in 1..Len(UpperChars) |-> Ch(LowerChars, i)]

lower_char(c) ==
    IF \E i \in 1..Len(UpperChars) : Ch(UpperChars, i) = c
    THEN LowerMap[CHOOSE k \in 1..Len(UpperChars) : Ch(UpperChars, k) = c]
    ELSE c

RECURSIVE lower(_)
\* str.lower()
lower(s) ==
    IF Len(s) = 0 THEN ""
    ELSE IF Len(s) = 1 THEN lower_char(s)
    ELSE LET h == Len(s) \div 2
         IN  lower(SubSeq(s, 1, h)) \o lower(SubSeq(s, h + 1, Len(s)))

StartsAt(t, i, w) == i >= 1 /\ i + Len(w) - 1 <= Len(t) /\ SubSeq(t, i, i + Len(w) - 1) = w

\* `w in t`
Contains(t, w) == \E i \in 1..(Len(t) - Len(w) + 1) : StartsAt(t, i, w)

\* str.endswith
EndsWith(t, w) == Len(w) <= Len(t) /\ SubSeq(t, Len(t) - Len(w) + 1, Len(t)) = w

IsWordAt(t, k) == k >= 1 /\ k <= Len(t) /\ Ch(t, k) \in WordChars

\* re: \b holds between character p-1 and character p of t
Boundary(t, p) == IsWordAt(t, p - 1) # IsWordAt(t, p)

RECURSIVE SkipSpaces(_, _)
\* re: \s* consumed greedily from position i
SkipSpaces(t, i) == IF i <= Len(t) /\ Ch(t, i) \in SpaceChars THEN SkipSpaces(t, i + 1) ELSE i

(***************************************************************************)
(* A compiled pattern is a record: its alternatives, whether the group is  *)
(* wrapped in \b on the left / right, whether it is anchored with ^, the   *)
(* negative look-aheads (?!pre\s*post) and the words of a trailing         *)
(* .*(w1|w2).  A pattern list is a set of compiled patterns.               *)
(***************************************************************************)
Rx(alts, lb, rb) == [alts |-> alts, lb |-> lb, rb |-> rb, at1 |-> FALSE, neg |-> {}, then |-> {}]

\* \b(a|b|...)\b
W(alts) == Rx(alts, TRUE, TRUE)

\* a|b|...
L(alts) == Rx(alts, FALSE, FALSE)

\* a\b|b\b
R(alts) == Rx(alts, FALSE, TRUE)

NegAhead(t, j, n) ==
    /\ StartsAt(t, j, n[1])
    /\ LET k == SkipSpaces(t, j + Len(n[1])) IN n[2] = "" \/ StartsAt(t, k, n[2])

\* rx.search(t) is not None, for a text t already folded to lower case
search(rx, t) ==
    \E a \in rx.alts : \E i \in 1..(Len(t) - Len(a) + 1) :
        /\ StartsAt(t, i, a)
        /\ rx.at1 => i = 1
        /\ rx.lb => Boundary(t, i)
        /\ rx.rb => Boundary(t, i + Len(a))
        /\ \A n \in rx.neg : ~NegAhead(t, i + Len(a), n)
        /\ rx.then = {} \/ \E w \in rx.then : Contains(SubSeq(t, i + Len(a), Len(t)), w)

\* _any(patterns, text); re.I: the text is folded to lower case, as the alternatives are
_any(patterns, text) ==
    LET t == lower(text) IN \E rx \in patterns : search(rx, t)

(***************************************************************************)
(* Pattern library (module-level lists, compiled with re.I).  Optional     *)
(* parts of a pattern (an optional s, hyphen or space) are written out as  *)
(* their variants; optional whitespace runs as zero or one space.          *)
(***************************************************************************)
WATCHLIST_RE ==
    { L({"bangalore", "bengaluru"}), L({"beijing"}), L({"mumbai", "bombay"}),
      L({"newdelhi", "new delhi", "delhi", "ndls"}), L({"shenzhen"}), L({"singapore"}),
      L({"sydney"}), L({"tokyo"}), L({"dubai"}), L({"riyadh"}), L({"doha"}) }

WATCHLIST_HUBS_RE ==
    { L({"kempegowda", "bengaluru international"}), R({"blr"}),
      L({"chhatrapati shivaji", "csmia", "mumbai international"}), R({"bom"}),
      L({"indira gandhi", "igi", "new delhi railway station", "ndls"}), R({"del"}),
      L({"beijing capital", "daxing", "shenzhen baoan", "shenzhen bao'an"}), R({"pek", "pkx", "szx"}),
      L({"shenzhen north station", "futian station"}),
      L({"changi", "woodlands checkpoint", "tuas checkpoint", "mrt"}), R({"sin"}),
      L({"sydney airport", "central station sydney"}), R({"syd"}),
      L({"narita", "haneda", "tokyo station"}), R({"nrt", "hnd"}),
      L({"dubai international", "al maktoum", "union station dubai", "burjuman"}), R({"dxb", "dwc"}),
      L({"king khalid international", "riyadh metro"}), R({"ruh"}),
      L({"hamad international"}), R({"doh"}) }

SPORTS_RE ==
    { W({"sport", "sports", "football", "soccer", "rugby", "tennis", "golf", "cricket",
         "formula1", "formula 1", "f1", "motogp", "basketball", "nba", "hockey", "nhl",
         "baseball", "mlb", "boxing", "mma", "ufc", "marathon", "olympic", "olympics"}) }

SPORTS_META_RE ==
    { W({"match", "fixture", "league", "cup", "championship", "qualifier",
         "playoff", "play-off", "play off", "transfer", "goal",
         "lineup", "line-up", "line up", "result", "scoreline", "standings"}) }

ENTERTAINMENT_RE ==
    { W({"entertainment", "celebrity", "royal family", "fashion", "lifestyle", "culture",
         "arts", "movie", "film", "tv series", "theatre", "theater", "music", "gaming",
         "trailer", "box office"}) }

BOOKS_PRIZES_RE ==
    { W({"novel", "book", "memoir", "author", "poet", "literary", "shortlist", "longlist",
         "prize", "award"}) }

OBITUARY_RE ==
    { W({"obituary", "dies at", "dead at", "passes away", "cause of death"}) }

FEATURE_RE ==
    { [alts |-> {"opinion:", "op-ed:", "editorial:", "analysis:", "explainer:", "who is:", "profile:"},
       lb |-> FALSE, rb |-> FALSE, at1 |-> TRUE, neg |-> {}, then |-> {}],
      W({"feature", "long read", "special report", "what to know", "what we know",
         "as it happened", "live blog"}) }

FINANCE_RE ==
    { W({"stock", "stocks", "share", "shares", "indices", "index", "bond", "bonds",
         "yield", "yields", "currency", "currencies", "forex", "fx", "commodity",
         "commodities", "earnings", "quarterly", "ipo", "dividend", "dow jones", "nasdaq",
         "sp500", "s&p500", "sp 500", "s&p 500", "nikkei", "hang seng", "sensex"}) }

GOV_PROC_RE ==
    { W({"supreme court", "high court", "bench", "petition", "pil", "ordinance", "quota",
         "reservation", "byelection", "by-election", "by election", "ward", "municipal",
         "panchayat", "local body poll", "local body polls"}) }

HR_DISCIPLINE_RE ==
    { W({"appointment", "appointed", "takes charge", "assumes office", "sworn in",
         "inaugurated", "oath"}),
      W({"franchisee", "consumer affairs", "ombudsman", "advertising standards",
         "competition regulator", "accc", "asic"}),
      W({"constable suspended", "officer suspended", "cop suspended"}) }

SEC_EXC_RE ==
    { W({"sanction", "export control", "embargo", "asset freeze", "seizure", "raid",
         "police", "arrest", "detained"}),
      W({"curfew", "state of emergency", "martial law", "evacuation", "evacuated"}),
      W({"airspace closed", "airport closed", "border closed", "blockade", "roadblock"}),
      W({"strike", "walkout", "protest", "demonstration", "riot", "unrest", "clashes"}),
      W({"explosion", "blast", "attack", "shooting", "bomb", "grenade", "kidnap", "hostage",
         "terror", "rocket", "missile", "drone"}),
      W({"cyber", "ransomware", "ddos", "data breach", "hacked"}) }

VIOLENCE_RE ==
    { L({"riot", "violent", "clashes", "looting", "molotov", "stabbing", "knife attack",
         "shooting", "gunfire", "shots fired", "arson"}) }

TERROR_RE ==
    { [alts |-> {"terror"}, lb |-> FALSE, rb |-> FALSE, at1 |-> FALSE,
       neg |-> {<<"ism", "threat">>}, then |-> {}],
      L({"car bomb", "suicide bomb", "ied", "explosion", "blast"}) }

CASUALTY_RE ==
    { W({"killed", "dead", "fatalit", "injured", "wounded", "casualt"}) }

PROTESTS_RE ==
    { L({"protest", "demonstration", "march", "blockade", "strike", "walkout", "picket"}) }

CYBER_RE ==
    { L({"ransomware", "data breach", "ddos", "phishing", "malware", "cyber attack"}),
      [alts |-> {"hack"}, lb |-> FALSE, rb |-> FALSE, at1 |-> FALSE,
       neg |-> {<<"ney", "">>}, then |-> {}] }

TRANS_HARD_RE ==
    { L({"airport closed", "airspace closed", "runway closed", "rail suspended",
         "service suspended", "port closed", "all lanes closed", "carriageway closed",
         "road closed", "blocked"}),
      [alts |-> {"drone"}, lb |-> FALSE, rb |-> FALSE, at1 |-> FALSE,
       neg |-> {}, then |-> {"airport", "airspace"}] }

HAZARDS_RE ==
    { L({"flood", "flash flood", "earthquake", "aftershock", "landslide", "wildfire", "storm",
         "typhoon", "tornado", "heatwave", "snow", "ice", "avalanche", "wind", "gale",
         "tsunami"}) }

\* "Türkiye" is left out: the bounded texts are ASCII
ALLOW_RE ==
    { W({"india", "new delhi", "delhi", "mumbai", "bengaluru", "bangalore", "kolkata",
         "chennai", "sri lanka", "bangladesh", "nepal", "bhutan", "maldives", "pakistan"}),
      W({"singapore", "malaysia", "indonesia", "philippines", "thailand", "vietnam",
         "cambodia", "laos", "myanmar", "brunei", "timorleste", "timor-leste", "timor leste"}),
      W({"china", "beijing", "shenzhen", "shanghai", "hong kong", "macao", "japan", "tokyo",
         "osaka", "kobe", "hokkaido", "korea", "south korea", "seoul", "north korea",
         "pyongyang", "taiwan", "taipei"}),
      W({"australia", "sydney", "melbourne", "brisbane", "perth", "new zealand",
         "wellington", "auckland"}),
      W({"uae", "united arab emirates", "dubai", "abu dhabi", "saudi arabia", "riyadh",
         "jeddah", "qatar", "doha", "bahrain", "kuwait", "oman", "yemen", "jordan",
         "lebanon", "syria", "iraq", "iran", "israel", "west bank", "gaza", "palestine",
         "turkey", "cyprus"}),
      W({"egypt", "cairo", "libya", "tunisia", "algeria", "morocco"}) }

NON_TARGET_RE ==
    { W({"united states", "usa", "us", "american", "canada", "canadian", "mexico"}),
      W({"argentina", "bolivia", "brazil", "chile", "colombia", "costa rica", "cuba",
         "dominican republic", "ecuador", "el salvador", "guatemala", "haiti", "honduras",
         "jamaica", "nicaragua", "panama", "paraguay", "peru", "uruguay", "venezuela"}),
      W({"uk", "united kingdom", "england", "scotland", "wales", "northern ireland",
         "ireland", "france", "germany", "netherlands", "belgium", "luxembourg", "denmark",
         "norway", "sweden", "finland", "iceland", "poland", "czech", "slovakia", "hungary",
         "romania", "bulgaria", "greece", "italy", "spain", "portugal", "ukraine", "estonia",
         "latvia", "lithuania", "serbia", "bosnia", "croatia", "slovenia", "albania",
         "kosovo", "moldova"}) }

ALLOW_TLDS ==
    { ".ae", ".sa", ".qa", ".bh", ".kw", ".om", ".ye",
      ".il", ".tr", ".cy", ".jo", ".lb", ".sy", ".iq", ".ir",
      ".eg", ".ly", ".tn", ".dz", ".ma",
      ".in", ".lk", ".bd", ".np", ".bt", ".mv", ".pk",
      ".sg", ".my", ".id", ".ph", ".th", ".vn", ".kh", ".la", ".mm", ".bn", ".tl",
      ".cn", ".hk", ".mo", ".jp", ".kr", ".tw",
      ".au", ".nz" }

ALLOW_DOMAINS ==
    { "nhk.or.jp", "japantimes.co.jp", "abc.net.au", "thehindu.com", "indianexpress.com",
      "channelnewsasia.com", "wam.ae", "arabnews.com", "qna.org.qa",
      "aljazeera.com", "dw.com", "bbc.co.uk", "bbc.com", "france24.com",
      "straitstimes.com" }

P1_THRESHOLD == 80
P2_THRESHOLD == 50
P3_THRESHOLD == 30
MIN_SCORE_TO_INCLUDE == 35

(***************************************************************************)
(* Helpers of the classification pipeline                                  *)
(***************************************************************************)
HOUR == 3600

\* the bonus growing with age instead of shrinking
recency_bonus_Inverted(ts, tnow) ==
    IF tnow - ts <= 6 * HOUR THEN 0 ELSE IF tnow - ts <= 24 * HOUR THEN 5 ELSE 10

\* recency_bonus(ts); the clock read now_ts() is the parameter tnow
recency_bonus(ts, tnow) ==
    IF tnow - ts <= 6 * HOUR THEN 10 ELSE IF tnow - ts <= 24 * HOUR THEN 5 ELSE 0

RECURSIVE SkipClass(_, _, _, _)
\* first position from i on whose character is outside the class
\* (the class is cls, or its complement when inv)
SkipClass(s, i, cls, inv) ==
    IF i <= Len(s) /\ ((Ch(s, i) \in cls) # inv) THEN SkipClass(s, i + 1, cls, inv) ELSE i

RECURSIVE SubRuns(_, _, _, _)
\* re.sub("[class]+", rep, s)
SubRuns(s, cls, inv, rep) ==
    IF s = "" THEN ""
    ELSE IF (Head(s) \in cls) # inv
         THEN rep \o SubRuns(SubSeq(s, SkipClass(s, 1, cls, inv), Len(s)), cls, inv, rep)
         ELSE Head(s) \o SubRuns(Tail(s), cls, inv, rep)

\* str.strip()
strip(s) ==
    LET a == SkipClass(s, 1, SpaceChars, FALSE)
        ends == { j \in 0..Len(s) : \A k \in (j + 1)..Len(s) : Ch(s, k) \in SpaceChars }
        b == CHOOSE j \in ends : \A k \in ends : j <= k
    IN  SubSeq(s, a, b)

TitleMarkers == {"breaking", "live", "update", "updated", "just in", "watch", "video"}

\* re.sub(r"^(breaking|live|update|updated|just in|watch|video):\s+", "", s)
StripMarker(s) ==
    IF \E m \in TitleMarkers :
          /\ StartsAt(s, 1, m \o ":")
          /\ Len(s) > Len(m) + 1
          /\ Ch(s, Len(m) + 2) \in SpaceChars
    THEN LET m == CHOOSE x \in TitleMarkers :
                      /\ StartsAt(s, 1, x \o ":")
                      /\ Len(s) > Len(x) + 1
                      /\ Ch(s, Len(x) + 2) \in SpaceChars
         IN  SubSeq(s, SkipSpaces(s, Len(m) + 2), Len(s))
    ELSE s

\* \s*\([^)]+\)$ matches s from position i to the end
ParenAt(s, i) ==
    \E k \in i..(Len(s) - 2) :
        /\ \A j \in i..(k - 1) : Ch(s, j) \in SpaceChars
        /\ Ch(s, k) = "("
        /\ Ch(s, Len(s)) = ")"
        /\ \A j \in (k + 1)..(Len(s) - 1) : Ch(s, j) # ")"

\* re.sub(r"\s*\([^)]+\)$", "", s): the leftmost match is removed
StripParen(s) ==
    IF \E i \in 1..Len(s) : ParenAt(s, i)
    THEN LET i == CHOOSE x \in 1..Len(s) : ParenAt(s, x) /\ \A y \in 1..(x - 1) : ~ParenAt(s, y)
         IN  SubSeq(s, 1, i - 1)
    ELSE s

FillerWords == {"report", "video", "live", "analysis", "opinion"}

FillerAt(s, i) == \E w \in FillerWords : StartsAt(s, i, w) /\ Boundary(s, i) /\ Boundary(s, i + Len(w))

RECURSIVE SubFillers(_, _)
\* re.sub(r"\b(report|video|live|analysis|opinion)\b", " ", s), scanning from position i
SubFillers(s, i) ==
    IF i > Len(s) THEN ""
    ELSE IF FillerAt(s, i)
         THEN LET w == CHOOSE x \in FillerWords :
                           StartsAt(s, i, x) /\ Boundary(s, i) /\ Boundary(s, i + Len(x))
              IN  " " \o SubFillers(s, i + Len(w))
         ELSE Ch(s, i) \o SubFillers(s, i + 1)

AlnumLower == CharSet(LowerChars) \cup CharSet(DigitChars)

\* normalize_title(s); the dash class is the ASCII hyphen (the texts are ASCII)
normalize_title(s) ==
    LET s1 == lower(s)
        s2 == StripMarker(s1)
        s3 == StripParen(s2)
        s4 == SubRuns(s3, {"-"}, FALSE, "-")
        s5 == SubRuns(s4, AlnumLower, TRUE, " ")
        s6 == SubFillers(s5, 1)
    IN  strip(SubRuns(s6, SpaceChars, FALSE, " "))

TransportNouns == { W({"service", "rail", "train", "metro", "flight", "airport", "runway"}) }

\* the finance/governance rule without its security exception
is_noise_NoException(text) ==
    LET t == lower(text) IN
    IF _any(SPORTS_RE, t) \/ _any(SPORTS_META_RE, t) THEN TRUE
    ELSE IF _any(ENTERTAINMENT_RE, t) \/ _any(BOOKS_PRIZES_RE, t) THEN TRUE
    ELSE IF _any(OBITUARY_RE, t)
            /\ ~(_any(VIOLENCE_RE, t) \/ _any(TERROR_RE, t) \/ _any(CASUALTY_RE, t)) THEN TRUE
    ELSE IF _any(FEATURE_RE, t) THEN TRUE
    ELSE IF _any(FINANCE_RE, t) \/ _any(GOV_PROC_RE, t) THEN TRUE
    ELSE IF _any(HR_DISCIPLINE_RE, t)
         THEN IF Contains(t, "suspended") /\ _any(TransportNouns, t) THEN FALSE ELSE TRUE
    ELSE FALSE

\* is_noise(text)
is_noise(text) ==
    LET t == lower(text) IN
    IF _any(SPORTS_RE, t) \/ _any(SPORTS_META_RE, t) THEN TRUE
    ELSE IF _any(ENTERTAINMENT_RE, t) \/ _any(BOOKS_PRIZES_RE, t) THEN TRUE
    ELSE IF _any(OBITUARY_RE, t)
            /\ ~(_any(VIOLENCE_RE, t) \/ _any(TERROR_RE, t) \/ _any(CASUALTY_RE, t)) THEN TRUE
    ELSE IF _any(FEATURE_RE, t) THEN TRUE
    ELSE IF (_any(FINANCE_RE, t) \/ _any(GOV_PROC_RE, t)) /\ ~_any(SEC_EXC_RE, t) THEN TRUE
    ELSE IF _any(HR_DISCIPLINE_RE, t)
         THEN IF Contains(t, "suspended") /\ _any(TransportNouns, t) THEN FALSE ELSE TRUE
    ELSE FALSE

SchemeChars == CharSet(UpperChars) \cup CharSet(LowerChars) \cup CharSet(DigitChars) \cup {"+", "-", "."}

FirstIndex(s, chars, from) ==
    LET hits == { i \in from..Len(s) : Ch(s, i) \in chars }
    IN  IF hits = {} THEN Len(s) + 1 ELSE CHOOSE i \in hits : \A j \in hits : i <= j

\* urlparse(link).netloc; "!" stands for the ValueError of an unbalanced bracket
netloc(link) ==
    LET c    == FirstIndex(link, {":"}, 1)
        hasS == /\ c > 1 /\ c <= Len(link)
                /\ Ch(link, 1) \in (CharSet(UpperChars) \cup CharSet(LowerChars))
                /\ \A i \in 1..(c - 1) : Ch(link, i) \in SchemeChars
        rest == IF hasS THEN SubSeq(link, c + 1, Len(link)) ELSE link
        loc  == IF StartsAt(rest, 1, "//")
                THEN SubSeq(rest, 3, FirstIndex(rest, {"/", "?", "#"}, 3) - 1)
                ELSE ""
    IN  IF Contains(loc, "[") # Contains(loc, "]") THEN "!" ELSE loc

\* the domain/TLD heuristics of is_region_relevant: the try block and the final return
host_in_scope(link) ==
    IF netloc(link) = "!" THEN FALSE
    ELSE LET host == lower(netloc(link)) IN
         IF \E tld \in ALLOW_TLDS : EndsWith(host, tld) THEN TRUE
         ELSE IF \E dom \in ALLOW_DOMAINS : Contains(host, dom) THEN TRUE
         ELSE FALSE

\* the host heuristics consulted before the text
is_region_relevant_HostFirst(text, link) ==
    LET t == text IN
    IF host_in_scope(link) THEN TRUE
    ELSE IF _any(NON_TARGET_RE, t) /\ ~(_any(ALLOW_RE, t) \/ _any(WATCHLIST_RE \cup WATCHLIST_HUBS_RE, t))
    THEN FALSE
    ELSE _any(ALLOW_RE, t) \/ _any(WATCHLIST_RE \cup WATCHLIST_HUBS_RE, t)

\* is_region_relevant(text, link)
is_region_relevant(text, link) ==
    LET t == text IN
    IF _any(NON_TARGET_RE, t) /\ ~(_any(ALLOW_RE, t) \/ _any(WATCHLIST_RE \cup WATCHLIST_HUBS_RE, t))
    THEN FALSE
    ELSE IF _any(ALLOW_RE, t) \/ _any(WATCHLIST_RE \cup WATCHLIST_HUBS_RE, t)
    THEN TRUE
    ELSE host_in_scope(link)

\* the signal gate also opened by the watchlist cities and hubs
is_high_signal_WithWatchlist(text) ==
    LET t == lower(text) IN
    _any(VIOLENCE_RE \cup TERROR_RE \cup CASUALTY_RE \cup PROTESTS_RE
         \cup TRANS_HARD_RE \cup CYBER_RE \cup HAZARDS_RE
         \cup WATCHLIST_RE \cup WATCHLIST_HUBS_RE, t)

\* is_high_signal(text)
is_high_signal(text) ==
    LET t == lower(text) IN
    _any(VIOLENCE_RE \cup TERROR_RE \cup CASUALTY_RE \cup PROTESTS_RE
         \cup TRANS_HARD_RE \cup CYBER_RE \cup HAZARDS_RE, t)

REPUTABLE_RE ==
    { L({"bbc", "france 24", "dw", "al jazeera", "nhk", "japan times", "abc news", "the hindu",
         "indian express", "wam", "arab news", "qna", "straits times"}) }

\* score_item(text, published_ts, source_name); tnow is the clock read of recency_bonus
score_item(text, published_ts, source_name, tnow) ==
    LET t == lower(text) IN
      (IF _any(TERROR_RE, t) THEN 90 ELSE 0)
    + (IF _any(VIOLENCE_RE, t) THEN 85 ELSE 0)
    + (IF _any(CASUALTY_RE, t) THEN 35 ELSE 0)
    + (IF _any(PROTESTS_RE, t) THEN 55 ELSE 0)
    + (IF _any(TRANS_HARD_RE, t) THEN 70 ELSE 0)
    + (IF _any(CYBER_RE, t) THEN 50 ELSE 0)
    + (IF _any(HAZARDS_RE, t) THEN 35 ELSE 0)
    + (IF _any(WATCHLIST_RE \cup WATCHLIST_HUBS_RE, t) THEN 30 ELSE 0)
    + recency_bonus(published_ts, tnow)
    + (IF source_name # "" /\ _any(REPUTABLE_RE, source_name) THEN 6 ELSE 0)

\* to_priority(score)
to_priority(score) ==
    IF score >= P1_THRESHOLD THEN 1
    ELSE IF score >= P2_THRESHOLD THEN 2
    ELSE IF score >= P3_THRESHOLD THEN 3
    ELSE 0

(***************************************************************************)
(* difflib.SequenceMatcher(None, a, b).ratio() for strings shorter than    *)
(* 200 characters (below that length the autojunk heuristic is inactive).  *)
(***************************************************************************)
RECURSIVE RunLen(_, _, _, _, _, _)
\* length of the common run a[i..] = b[j..] inside a[..ahi], b[..bhi]
RunLen(a, i, ahi, b, j, bhi) ==
    IF i <= ahi /\ j <= bhi /\ Ch(a, i) = Ch(b, j)
    THEN 1 + RunLen(a, i + 1, ahi, b, j + 1, bhi)
    ELSE 0

\* find_longest_match: the longest block, earliest in a, then earliest in b
find_longest_match(a, alo, ahi, b, blo, bhi) ==
    LET cand == { <<i, j>> \in (alo..ahi) \X (blo..bhi) : Ch(a, i) = Ch(b, j) }
        len(p) == RunLen(a, p[1], ahi, b, p[2], bhi)
    IN  IF cand = {} THEN [i |-> alo, j |-> blo, k |-> 0]
        ELSE LET p == CHOOSE x \in cand : \A y \in cand :
                          \/ len(x) > len(y)
                          \/ len(x) = len(y) /\ x[1] < y[1]
                          \/ len(x) = len(y) /\ x[1] = y[1] /\ x[2] <= y[2]
             IN  [i |-> p[1], j |-> p[2], k |-> len(p)]

RECURSIVE matching_size(_, _, _, _, _, _)
\* sum of the block sizes of get_matching_blocks on a[alo..ahi], b[blo..bhi]
matching_size(a, alo, ahi, b, blo, bhi) ==
    IF alo > ahi \/ blo > bhi THEN 0
    ELSE LET m == find_longest_match(a, alo, ahi, b, blo, bhi) IN
         IF m.k = 0 THEN 0
         ELSE m.k + matching_size(a, alo, m.i - 1, b, blo, m.j - 1)
                  + matching_size(a, m.i + m.k, ahi, b, m.j + m.k, bhi)

\* SequenceMatcher(None, a, b).ratio() >= 0.96, i.e. 2*M/T >= 96/100
similar(a, b) ==
    LET M == matching_size(a, 1, Len(a), b, 1, Len(b))
        T == Len(a) + Len(b)
    IN  IF T = 0 THEN TRUE ELSE 25 * M >= 12 * T

\* hashlib.sha256(s).hexdigest(): the digest stands for its input (no collisions)
sha256(s) == <<"sha256", s>>

(***************************************************************************)
(* harvest(): the per-entry body of the ingest loop, the sort and the      *)
(* deduplication walk; build_feed(): the replay logic.                     *)
(***************************************************************************)
HtmlEntities == { <<"&amp;", "&">>, <<"&lt;", "<">>, <<"&gt;", ">">>, <<"&quot;", "\"">>, <<"&#39;", "'">> }

RECURSIVE html_unescape(_)
\* html.unescape(s), for the entities above
html_unescape(s) ==
    IF s = "" THEN ""
    ELSE IF \E en \in HtmlEntities : StartsAt(s, 1, en[1])
         THEN LET en == CHOOSE x \in HtmlEntities : StartsAt(s, 1, x[1])
              IN  en[2] \o html_unescape(SubSeq(s, Len(en[1]) + 1, Len(s)))
         ELSE Head(s) \o html_unescape(Tail(s))

\* a *_parsed value is <<>> (absent or None: the feed gave no date, or one that could
\* not be parsed), <<ts>> (a struct_time that time.mktime converts to ts) or
\* Unconvertible (a struct_time for which time.mktime raises)
Unconvertible == <<"OverflowError", "mktime argument out of range">>

\* time.mktime(v) returns a value
mktime_ok(v) == Len(v) = 1

\* time.mktime(v) when it returns
mktime(v) == v[1]

\* pub_ts reading published_parsed only
pub_ts_PublishedOnly(entry, tnow) ==
    IF entry.published_parsed # <<>> /\ mktime_ok(entry.published_parsed)
    THEN mktime(entry.published_parsed)
    ELSE tnow

\* pub_ts(entry); tnow is the clock read now_ts() of the last line
pub_ts(entry, tnow) ==
    IF entry.published_parsed # <<>> /\ mktime_ok(entry.published_parsed)
    THEN mktime(entry.published_parsed)
    ELSE IF entry.updated_parsed # <<>> /\ mktime_ok(entry.updated_parsed)
    THEN mktime(entry.updated_parsed)
    ELSE tnow

Item(title, link, summary, published_ts, source, score, priority) ==
    [title |-> title, link |-> link, summary |-> summary, published_ts |-> published_ts,
     source |-> source, score |-> score, priority |-> priority]

\* the append guarded by the tier alone, without the inclusion floor
admit_NoFloor(its, title, link, summary, ts, source_name, sc) ==
    LET pr == to_priority(sc) IN
    IF pr = 0 THEN its
    ELSE Append(its, Item(html_unescape(title), link, summary, ts, source_name, sc, pr))

\* the test of line 443 and the append of lines 445-453: the items list after one scored entry
admit(its, title, link, summary, ts, source_name, sc) ==
    LET pr == to_priority(sc) IN
    IF pr = 0 \/ sc < MIN_SCORE_TO_INCLUDE THEN its
    ELSE Append(its, Item(html_unescape(title), link, summary, ts, source_name, sc, pr))

\* body of the loop over fp.entries for one entry e of a feed named source_name;
\* n1 and n2 are the clock reads of pub_ts and of recency_bonus
harvest_entry(its, e, n1, n2) ==
    LET title   == strip(e.title)
        link    == strip(e.link)
        summary == html_unescape(strip(e.summary))
        text    == title \o " " \o summary
    IN  IF title = "" \/ link = "" THEN its
        ELSE IF is_noise(text) THEN its
        ELSE IF ~is_region_relevant(text, link) THEN its
        ELSE IF ~is_high_signal(text) THEN its
        ELSE LET ts == pub_ts(e, n1)
                 sc == score_item(text, ts, e.source, n2)
             IN  admit(its, title, link, summary, ts, e.source, sc)

(***************************************************************************)
(* Bounds and inputs                                                       *)
(***************************************************************************)
MaxEntries == 3
MaxTick == 1
MaxReplay == 2
Now0 == 100000

Clock == Now0..(Now0 + MaxTick)

Fresh == <<Now0 - 6 * HOUR>>
Old == <<Now0 - 24 * HOUR - 1>>

Entry(title, link, summary, published_parsed, updated_parsed, source) ==
    [title |-> title, link |-> link, summary |-> summary, published_parsed |-> published_parsed,
     updated_parsed |-> updated_parsed, source |-> source]

\* candidate records the feeds can deliver (fp.entries, with the feed's title as source)
Entries ==
    { Entry("flood in oman", "https://t.om/1", "", Old, <<>>, "Oman Daily"),
      Entry("flood in oman", "https://t.om/1", "dozens killed", Fresh, <<>>, "BBC News"),
      Entry("BREAKING: flood in oman", "https://t.om/2", "", Fresh, <<>>, "BBC News"),
      Entry("flood in oman (updated)", "https://t.om/1", "", <<>>, Old, "BBC News"),
      Entry("floods in oman", "https://t.om/2", "", Old, <<>>, "BBC News"),
      Entry("floods in omani", "https://t.om/3", "", Old, <<>>, "Oman Daily"),
      Entry("update: flood in oman", "https://t.om/4", "", Old, <<>>, "Oman Daily"),
      Entry("BREAKING: update: flood in oman", "https://t.om/4", "", Old, <<>>, "Oman Daily"),
      Entry("storm in iraq ", "https://t.om/5", "", Old, <<>>, "Oman Daily"),
      Entry("Nikkei rises as tech stocks rally", "https://t.jp/1", "", Fresh, <<>>, "NHK"),
      Entry("flood in peru", "https://t.om/6", "", Fresh, <<>>, "BBC News"),
      Entry("calm day in oman", "https://t.om/7", "", Fresh, <<>>, "BBC News"),
      Entry("flood in oman", " ", "", Fresh, <<>>, "BBC News"),
      Entry("earthquake in iran", "https://t.om/8", "", <<>>, <<>>, "Oman Daily"),
      Entry("earthquake in iran", "https://t.om/9", "", Unconvertible, Old, "Oman Daily"),
      Entry("wildfire in cyprus", "https://t.om/10", "", Unconvertible, Unconvertible, "Oman Daily") }

ReseedTokens == {"", "r1"}
MaxItemsArgs == {2, 300}

\* harvest_entry on every entry and pair of clock reads
HarvestTable ==
    [e \in Entries, n1 \in Clock, n2 \in Clock |-> harvest_entry(<<>>, e, n1, n2)]

\* titles of the entries as the ingest loop stores them, and their normalized forms
ItemTitles == { html_unescape(strip(e.title)) : e \in Entries }

NormTable == [t \in ItemTitles |-> normalize_title(t)]

ItemNorms == { normalize_title(t) : t \in ItemTitles }

SimilarTable == [a \in ItemNorms, b \in ItemNorms |-> similar(a, b)]

\* normalize_title(t) and similar(a, b), looked up in the tables where they hold the value
norm(t) == IF t \in ItemTitles THEN NormTable[t] ELSE normalize_title(t)

sim(a, b) == IF a \in ItemNorms /\ b \in ItemNorms THEN SimilarTable[a, b] ELSE similar(a, b)

\* the sort key (x.priority, x.score, x.published_ts), compared as tuples
KeyLess(x, y) ==
    \/ x.priority < y.priority
    \/ x.priority = y.priority /\ x.score < y.score
    \/ x.priority = y.priority /\ x.score = y.score /\ x.published_ts < y.published_ts

RECURSIVE SortItems_Ascending(_)
\* the sort without reverse=True
SortItems_Ascending(its) ==
    IF its = <<>> THEN <<>>
    ELSE LET n    == Len(its)
             x    == its[n]
             rest == SortItems_Ascending(SubSeq(its, 1, n - 1))
             pos  == Cardinality({ i \in 1..Len(rest) : ~KeyLess(x, rest[i]) })
         IN  SubSeq(rest, 1, pos) \o <<x>> \o SubSeq(rest, pos + 1, Len(rest))

RECURSIVE SortItems_TiesReversed(_)
\* the descending order obtained by reversing an ascending sort: equal keys swap places
SortItems_TiesReversed(its) ==
    IF its = <<>> THEN <<>>
    ELSE LET n    == Len(its)
             x    == its[n]
             rest == SortItems_TiesReversed(SubSeq(its, 1, n - 1))
             pos  == Cardinality({ i \in 1..Len(rest) : KeyLess(x, rest[i]) })
         IN  SubSeq(rest, 1, pos) \o <<x>> \o SubSeq(rest, pos + 1, Len(rest))

RECURSIVE SortItems(_)
\* sorted(items, key=..., reverse=True): descending, equal keys keep their input order
SortItems(its) ==
    IF its = <<>> THEN <<>>
    ELSE LET n    == Len(its)
             x    == its[n]
             rest == SortItems(SubSeq(its, 1, n - 1))
             pos  == Cardinality({ i \in 1..Len(rest) : ~KeyLess(rest[i], x) })
         IN  SubSeq(rest, 1, pos) \o <<x>> \o SubSeq(rest, pos + 1, Len(rest))

item_hash(it) == sha256(it.title \o "|" \o it.link)

\* the item is skipped by one of the two `continue` of the walk
is_dup(st, it) ==
    \/ item_hash(it) \in st.seen_hash
    \/ \E k \in 1..Len(st.seen_norm) : sim(norm(it.title), st.seen_norm[k])

\* the walk without the bookkeeping of the seen hashes and titles
walk_step_NoRecord(st, it) ==
    IF is_dup(st, it) THEN st
    ELSE [seen_hash |-> st.seen_hash, seen_norm |-> st.seen_norm, out |-> Append(st.out, it)]

\* one iteration of the walk over the sorted items
walk_step(st, it) ==
    IF is_dup(st, it) THEN st
    ELSE [seen_hash |-> st.seen_hash \cup {item_hash(it)},
          seen_norm |-> Append(st.seen_norm, norm(it.title)),
          out |-> Append(st.out, it)]

WalkInit == [seen_hash |-> {}, seen_norm |-> <<>>, out |-> <<>>]

RECURSIVE walk(_, _)
walk(st, its) == IF its = <<>> THEN st ELSE walk(walk_step(st, Head(its)), Tail(its))

\* lines 455-463 as a function of the scored items
deduplicate(its) == walk(WalkInit, SortItems(its)).out

RECURSIVE IntStr(_)
IntStr(n) == IF n < 10 THEN Ch(DigitChars, n + 1) ELSE IntStr(n \div 10) \o Ch(DigitChars, (n % 10) + 1)

\* now.strftime("%Y%m%d%H%M%S"): the time to the second, as digits
strftime(tnow) == IntStr(tnow)

\* the replay branch taken for one entry more (idx <= replay)
feed_entry_OneMore(it, i0, replay, reseed, tnow) ==
    IF i0 <= replay
    THEN [title |-> it.title, link |-> it.link, pubDate |-> tnow + (replay - i0),
          guid |-> sha256(it.title \o "|" \o it.link \o "|"
                          \o (IF reseed # "" THEN reseed ELSE strftime(tnow)))]
    ELSE [title |-> it.title, link |-> it.link, pubDate |-> it.published_ts,
          guid |-> sha256(it.title \o "|" \o it.link)]

\* the entry build_feed emits for items[idx], idx = i0 as in enumerate
feed_entry(it, i0, replay, reseed, tnow) ==
    IF i0 < replay
    THEN [title |-> it.title, link |-> it.link, pubDate |-> tnow + (replay - i0),
          guid |-> sha256(it.title \o "|" \o it.link \o "|"
                          \o (IF reseed # "" THEN reseed ELSE strftime(tnow)))]
    ELSE [title |-> it.title, link |-> it.link, pubDate |-> it.published_ts,
          guid |-> sha256(it.title \o "|" \o it.link)]

RECURSIVE build_feed_from(_, _, _, _, _)
build_feed_from(its, i0, replay, reseed, tnow) ==
    IF i0 >= Len(its) THEN <<>>
    ELSE (IF its[i0 + 1].priority \notin {1, 2, 3} THEN <<>>
          ELSE << feed_entry(its[i0 + 1], i0, replay, reseed, tnow) >>)
         \o build_feed_from(its, i0 + 1, replay, reseed, tnow)

\* build_feed(items, title, homepage, replay, reseed): the entries of the feed
build_feed(its, replay, reseed, tnow) == build_feed_from(its, 0, replay, reseed, tnow)

(***************************************************************************)
(* The run of main(): ingest loop, sort, walk, return, build_feed           *)
(***************************************************************************)
VARIABLES pc, now, items, sorted, idx, seen_hash, seen_norm, out, ranked, args, feed, call, ret

vars == <<pc, now, items, sorted, idx, seen_hash, seen_norm, out, ranked, args, feed, call, ret>>

NoArgs == [max_items |-> 0, replay |-> 0, reseed |-> ""]
NoCall == [fn |-> "none"]

Init ==
    /\ pc = "ingest"
    /\ now = Now0
    /\ items = <<>>
    /\ sorted = <<>>
    /\ idx = 0
    /\ seen_hash = {}
    /\ seen_norm = <<>>
    /\ out = <<>>
    /\ ranked = <<>>
    /\ args = NoArgs
    /\ feed = <<>>
    /\ call = NoCall
    /\ ret = <<>>

\* one iteration of the loop over fp.entries (lines 429-453)
HarvestEntry ==
    /\ pc = "ingest"
    /\ Len(items) < MaxEntries
    /\ \E e \in Entries : \E n1 \in Clock : \E n2 \in Clock :
          /\ now <= n1 /\ n1 <= n2
          /\ items' = items \o HarvestTable[e, n1, n2]
          /\ now' = n2
    /\ UNCHANGED <<pc, sorted, idx, seen_hash, seen_norm, out, ranked, args, feed, call, ret>>

\* lines 455-457: the seen sets are created and the items sorted
StartWalk ==
    /\ pc = "ingest"
    /\ pc' = "walk"
    /\ sorted' = SortItems(items)
    /\ idx' = 1
    /\ seen_hash' = {}
    /\ seen_norm' = <<>>
    /\ out' = <<>>
    /\ UNCHANGED <<now, items, ranked, args, feed, call, ret>>

\* lines 457-462: one iteration of the walk
WalkStep ==
    /\ pc = "walk"
    /\ idx <= Len(sorted)
    /\ LET st == walk_step([seen_hash |-> seen_hash, seen_norm |-> seen_norm, out |-> out], sorted[idx])
       IN  /\ seen_hash' = st.seen_hash
           /\ seen_norm' = st.seen_norm
           /\ out' = st.out
    /\ idx' = idx + 1
    /\ UNCHANGED <<pc, now, items, sorted, ranked, args, feed, call, ret>>

Take(seq, n) == SubSeq(seq, 1, IF n < Len(seq) THEN n ELSE Len(seq))

\* line 463 and line 504: harvest returns out, main keeps the first max_items
Return ==
    /\ pc = "walk"
    /\ idx > Len(sorted)
    /\ \E m \in MaxItemsArgs : \E r \in 0..MaxReplay : \E t \in ReseedTokens :
          /\ args' = [max_items |-> m, replay |-> r, reseed |-> t]
          /\ ranked' = Take(out, m)
    /\ pc' = "main"
    /\ items' = <<>>
    /\ sorted' = <<>>
    /\ idx' = 0
    /\ seen_hash' = {}
    /\ seen_norm' = <<>>
    /\ out' = <<>>
    /\ UNCHANGED <<now, feed, call, ret>>

\* line 506: build_feed, with its read of the clock (line 471)
BuildFeed ==
    /\ pc = "main"
    /\ \E n \in Clock :
          /\ now <= n
          /\ now' = n
          /\ feed' = build_feed(ranked, args.replay, args.reseed, n)
    /\ pc' = "done"
    /\ UNCHANGED <<items, sorted, idx, seen_hash, seen_norm, out, ranked, args, call, ret>>

Next == HarvestEntry \/ StartWalk \/ WalkStep \/ Return \/ BuildFeed

Spec == Init /\ [][Next]_vars

(***************************************************************************)
(* Properties of the deduplication walk                                    *)
(***************************************************************************)
WalkDone == pc = "walk" /\ idx > Len(sorted)

Range(seq) == { seq[k] : k \in 1..Len(seq) }

\* r stands for d in the walk: same hash, or d's normalized title is similar to r's
Represents(r, d) ==
    \/ item_hash(r) = item_hash(d)
    \/ sim(norm(d.title), norm(r.title))

\* r is preferred to d: higher tier (1 over 2 over 3), then higher score, then more recent
Preferred(r, d) ==
    \/ r.priority < d.priority
    \/ r.priority = d.priority /\ r.score > d.score
    \/ r.priority = d.priority /\ r.score = d.score /\ r.published_ts >= d.published_ts

\* C1: whenever an iteration of the walk drops an item as a duplicate or near-duplicate
\* of a retained item, that retained item has the higher tier, or the same tier and a
\* higher score, or the same tier and score and a publish time at least as recent.
C1_RetainedIsPreferred ==
    [][ (pc = "walk" /\ idx' = idx + 1 /\ out' = out)
        => \A k \in 1..Len(out) :
              Represents(out[k], sorted[idx]) => Preferred(out[k], sorted[idx]) ]_vars

IsSubSeq(a, b) ==
    \E f \in [1..Len(a) -> 1..Len(b)] :
        /\ \A i \in 1..Len(a) : a[i] = b[f[i]]
        /\ \A i \in 1..Len(a) : \A j \in 1..Len(a) : i < j => f[i] < f[j]

\* C2: the output of the walk is a subsequence of the sorted items, its key tuples
\* (priority, score, published_ts) never increase from one position to the next,
\* and every output item is one of the scored items.
C2_OutputOrdered ==
    pc = "walk" =>
        /\ IsSubSeq(out, sorted)
        /\ \A i \in 1..Len(out) : \A j \in 1..Len(out) : i < j => ~KeyLess(out[i], out[j])
        /\ Range(out) \subseteq Range(items)

C2_Witness ==
    /\ WalkDone
    /\ Len(out) >= 2
    /\ Len(out) < Len(sorted)
    /\ KeyLess(out[2], out[1])

Copies(seq, t, l) == { k \in 1..Len(seq) : seq[k].title = t /\ seq[k].link = l }

\* C3 as stated: two scored items with the same title and link leave exactly one item
\* with that title and link in the output, whatever the order of the input.
C3_ExactlyOneCopy ==
    WalkDone =>
        \A i \in 1..Len(items) : \A j \in 1..Len(items) :
            (i # j /\ items[i].title = items[j].title /\ items[i].link = items[j].link)
            => Cardinality(Copies(out, items[i].title, items[i].link)) = 1

\* C3 (amended): two scored items with the same title and link leave at most one item
\* with that title and link in the output; none is left only when the output holds an
\* item with another title or link that stands for them (same hash or similar title).
C3_AtMostOneCopy ==
    WalkDone =>
        \A i \in 1..Len(items) : \A j \in 1..Len(items) :
            (i # j /\ items[i].title = items[j].title /\ items[i].link = items[j].link)
            => LET n == Cardinality(Copies(out, items[i].title, items[i].link)) IN
               /\ n <= 1
               /\ n = 0 => \E k \in 1..Len(out) :
                              /\ <<out[k].title, out[k].link>> # <<items[i].title, items[i].link>>
                              /\ Represents(out[k], items[i])

C3_Witness ==
    /\ WalkDone
    /\ \E i \in 1..Len(items) : \E j \in 1..Len(items) :
          /\ i < j /\ items[i].title = items[j].title /\ items[i].link = items[j].link
          /\ items[i] # items[j]
          /\ Cardinality(Copies(out, items[i].title, items[i].link)) = 1

\* C4: deduplicating the output of the deduplication again returns the same sequence.
C4_Idempotent == WalkDone => deduplicate(out) = out

\* a walk that dropped an item, over titles whose similarity is not transitive
C4_Witness ==
    /\ WalkDone
    /\ Len(out) >= 2
    /\ Len(out) < Len(sorted)
    /\ \E a \in Range(sorted) : \E b \in Range(sorted) : \E c \in Range(sorted) :
          /\ sim(norm(a.title), norm(b.title))
          /\ sim(norm(b.title), norm(c.title))
          /\ ~sim(norm(a.title), norm(c.title))

(***************************************************************************)
(* Properties of normalize_title and of the replay of build_feed           *)
(***************************************************************************)
\* b is a with the marker "BREAKING: " put in front, or with a parenthetical appended
Decorated(a, b) ==
    \/ b = "BREAKING: " \o a
    \/ /\ Len(b) > Len(a) + 3
       /\ SubSeq(b, 1, Len(a) + 2) = a \o " ("
       /\ Ch(b, Len(b)) = ")"
       /\ \A i \in (Len(a) + 3)..(Len(b) - 1) : Ch(b, i) \notin {"(", ")"}

\* C6: two scored items whose titles differ only by a leading "BREAKING:" marker or a
\* trailing parenthetical have the same normalized title, and the walk does not retain both.
C6_DecoratedTitlesCollapse ==
    WalkDone =>
        \A i \in 1..Len(items) : \A j \in 1..Len(items) :
            Decorated(items[i].title, items[j].title)
            => /\ norm(items[i].title) = norm(items[j].title)
               /\ ~(items[i] \in Range(out) /\ items[j] \in Range(out))

Min(a, b) == IF a < b THEN a ELSE b

\* the identifier seed of a replayed entry: the caller's token, else the time as digits
ReplaySeed == IF args.reseed # "" THEN args.reseed ELSE strftime(now)

\* entry k of the feed is ranked[k] replayed: publish time date, identifier seeded
ReplayedEntry(k, date) ==
    /\ feed[k].title = ranked[k].title
    /\ feed[k].link = ranked[k].link
    /\ feed[k].pubDate = date
    /\ feed[k].guid = sha256(ranked[k].title \o "|" \o ranked[k].link \o "|" \o ReplaySeed)

\* entry k of the feed is ranked[k] with its own publish time and unseeded identifier
KeptEntry(k) ==
    /\ feed[k].title = ranked[k].title
    /\ feed[k].link = ranked[k].link
    /\ feed[k].pubDate = ranked[k].published_ts
    /\ feed[k].guid = sha256(ranked[k].title \o "|" \o ranked[k].link)

\* C9 as stated: the first min(N, len) entries are emitted with the current time as
\* publish time and an identifier from title+link plus the reseed token; every other
\* entry keeps its publish timestamp and an identifier from title+link alone.
C9_ReplayedAtCurrentTime ==
    pc = "done" =>
        /\ Len(feed) = Len(ranked)
        /\ \A k \in 1..Len(feed) :
              IF k <= Min(args.replay, Len(ranked)) THEN ReplayedEntry(k, now) ELSE KeptEntry(k)

\* C9 (amended): the first min(N, len) entries are emitted with publish time the current
\* time plus N - i seconds, i the entry's 0-based position, and an identifier from
\* title+link plus the reseed token; every other entry keeps its publish timestamp and
\* an identifier from title+link alone.
C9_ReplayedStaggered ==
    pc = "done" =>
        /\ Len(feed) = Len(ranked)
        /\ \A k \in 1..Len(feed) :
              IF k <= Min(args.replay, Len(ranked))
              THEN ReplayedEntry(k, now + (args.replay - (k - 1)))
              ELSE KeptEntry(k)

C9_Witness ==
    /\ pc = "done"
    /\ args.replay >= 1
    /\ Len(ranked) > args.replay
    /\ feed[1].pubDate = now + args.replay
    /\ feed[Len(feed)].pubDate = ranked[Len(ranked)].published_ts

(***************************************************************************)
(* Single calls of is_noise, is_region_relevant, score_item and of the     *)
(* score/admit step of harvest, on arguments drawn from bounded sets       *)
(***************************************************************************)
MaxScore == 100

NoiseTexts ==
    { "Nikkei rises as tech stocks rally",
      "Shares fell amid sanctions and clashes",
      "Shares fell amid sanctions",
      "Supreme Court hears petition",
      "Supreme Court petition after police raid",
      "Stocks slide after cricket final riot",
      "IPO chief appointed amid protest",
      "Bond yields up as officer suspended, train service protest",
      "Officer suspended",
      "Flood in Oman",
      "" }

RegionTexts ==
    { "Protest in United States and Singapore",
      "Protest in United States",
      "Flights diverted to Changi after storm in Peru",
      "Explosion reported downtown",
      "Flood in Oman" }

RegionLinks ==
    { "https://t.om/1", "https://www.bbc.com/news/1", "https://example.com/sg",
      "HTTPS://NEWS.EXAMPLE.SG/a", "http://[t.om/1", "" }

ScoreTexts ==
    { "flood in oman", "storm in iraq", "explosion in dubai", "calm day",
      "calm day in dubai", "three killed", "march planned", "road closed",
      "malware found", "stabbing reported", "car bomb" }

ScoreSources == { "BBC News", "Oman Daily", "" }

AgeProbes == { -5, 0, 6 * HOUR, 6 * HOUR + 1, 24 * HOUR, 24 * HOUR + 1 }

ScoreCalls ==
    { [fn |-> "score_item", text |-> t, published_ts |-> n - a, source_name |-> s, tnow |-> n] :
        t \in ScoreTexts, a \in AgeProbes, s \in ScoreSources, n \in Clock }

Calls ==
    { [fn |-> "is_noise", text |-> t] : t \in NoiseTexts }
    \cup { [fn |-> "is_region_relevant", text |-> t, link |-> l] : t \in RegionTexts, l \in RegionLinks }
    \cup ScoreCalls
    \cup { [fn |-> "admit", sc |-> n] : n \in 0..MaxScore }
    \cup { c \in { [fn |-> "harvest_entry", entry |-> e, n1 |-> t1, n2 |-> t2] :
                      e \in Entries, t1 \in Clock, t2 \in Clock } : c.n1 <= c.n2 }

InitFn ==
    /\ pc = "call"
    /\ call \in Calls
    /\ ret = <<>>
    /\ now = Now0
    /\ items = <<>>
    /\ sorted = <<>>
    /\ idx = 0
    /\ seen_hash = {}
    /\ seen_norm = <<>>
    /\ out = <<>>
    /\ ranked = <<>>
    /\ args = NoArgs
    /\ feed = <<>>

Call_is_noise ==
    /\ pc = "call" /\ call.fn = "is_noise"
    /\ ret' = is_noise(call.text)
    /\ pc' = "ret"
    /\ UNCHANGED <<now, items, sorted, idx, seen_hash, seen_norm, out, ranked, args, feed, call>>

Call_is_region_relevant ==
    /\ pc = "call" /\ call.fn = "is_region_relevant"
    /\ ret' = is_region_relevant(call.text, call.link)
    /\ pc' = "ret"
    /\ UNCHANGED <<now, items, sorted, idx, seen_hash, seen_norm, out, ranked, args, feed, call>>

\* score_item reads the clock once, in recency_bonus
Call_score_item ==
    /\ pc = "call" /\ call.fn = "score_item"
    /\ ret' = score_item(call.text, call.published_ts, call.source_name, call.tnow)
    /\ now' = call.tnow
    /\ pc' = "ret"
    /\ UNCHANGED <<items, sorted, idx, seen_hash, seen_norm, out, ranked, args, feed, call>>

\* lines 442-453 for an entry that was given the score call.sc
Call_admit ==
    /\ pc = "call" /\ call.fn = "admit"
    /\ items' = admit(items, "flood in oman", "https://t.om/1", "", Fresh[1], "Oman Daily", call.sc)
    /\ ret' = Len(items')
    /\ pc' = "ret"
    /\ UNCHANGED <<now, sorted, idx, seen_hash, seen_norm, out, ranked, args, feed, call>>

\* lines 429-453 for one entry: pub_ts reads the clock at n1, recency_bonus at n2
Call_harvest_entry ==
    /\ pc = "call" /\ call.fn = "harvest_entry"
    /\ items' = harvest_entry(items, call.entry, call.n1, call.n2)
    /\ ret' = Len(items')
    /\ now' = call.n2
    /\ pc' = "ret"
    /\ UNCHANGED <<sorted, idx, seen_hash, seen_norm, out, ranked, args, feed, call>>

NextFn ==
    Call_is_noise \/ Call_is_region_relevant \/ Call_score_item \/ Call_admit \/ Call_harvest_entry

SpecFn == InitFn /\ [][NextFn]_vars

Returned(fn) == pc = "ret" /\ call.fn = fn

\* C5: every item of the list handed to the walk has priority 1, 2 or 3 and a score at
\* least MIN_SCORE_TO_INCLUDE; an entry scored below the floor, or of priority 0, is
\* not appended, also when its score reaches the priority-3 threshold.
C5_FloorAndTier ==
    /\ \A k \in 1..Len(items) :
          items[k].priority \in {1, 2, 3} /\ items[k].score >= MIN_SCORE_TO_INCLUDE
    /\ Returned("admit") =>
          /\ (call.sc < MIN_SCORE_TO_INCLUDE \/ to_priority(call.sc) = 0) => items = <<>>
          /\ (call.sc >= MIN_SCORE_TO_INCLUDE /\ to_priority(call.sc) # 0)
                => Len(items) = 1 /\ items[1].score = call.sc

C5_Witness ==
    /\ Returned("admit")
    /\ call.sc >= P3_THRESHOLD
    /\ call.sc < MIN_SCORE_TO_INCLUDE
    /\ to_priority(call.sc) = 3
    /\ items = <<>>

InScopeText(t) == _any(ALLOW_RE, t) \/ _any(WATCHLIST_RE \cup WATCHLIST_HUBS_RE, t)

OutOfScopeText(t) == _any(NON_TARGET_RE, t)

\* C7: a text matching the allow-list or a watchlist city/hub pattern is relevant for
\* every link, even if it also matches an out-of-scope pattern; a text matching an
\* out-of-scope pattern and none of those is irrelevant for every link; for a text
\* matching none of the pattern sets the host heuristics give the result.
C7_TextDominatesHost ==
    Returned("is_region_relevant") =>
        /\ InScopeText(call.text)
              => ret /\ \A l \in RegionLinks : is_region_relevant(call.text, l)
        /\ (OutOfScopeText(call.text) /\ ~InScopeText(call.text))
              => ~ret /\ \A l \in RegionLinks : ~is_region_relevant(call.text, l)
        /\ (~OutOfScopeText(call.text) /\ ~InScopeText(call.text))
              => ret = host_in_scope(call.link)

C7_Witness ==
    /\ Returned("is_region_relevant")
    /\ InScopeText(call.text)
    /\ OutOfScopeText(call.text)
    /\ ~host_in_scope(call.link)
    /\ ret
    /\ \E l \in RegionLinks : host_in_scope(l) /\ ~is_region_relevant("Protest in United States", l)
    /\ \E l \in RegionLinks : \E m \in RegionLinks :
          /\ is_region_relevant("Explosion reported downtown", l)
          /\ ~is_region_relevant("Explosion reported downtown", m)

FinanceOrGovernance(t) == _any(FINANCE_RE, t) \/ _any(GOV_PROC_RE, t)

SecurityException(t) == _any(SEC_EXC_RE, t)

OtherNoise(t) ==
    \/ _any(SPORTS_RE, t) \/ _any(SPORTS_META_RE, t)
    \/ _any(ENTERTAINMENT_RE, t) \/ _any(BOOKS_PRIZES_RE, t)
    \/ _any(OBITUARY_RE, t)
    \/ _any(FEATURE_RE, t)
    \/ _any(HR_DISCIPLINE_RE, t)

\* C8: a text matching a finance or governance-process pattern and a security-exception
\* pattern, and no sports, entertainment/books, obituary, feature or HR/discipline
\* pattern, is not noise; a text matching a finance or governance-process pattern and
\* no security-exception pattern is noise.
C8_SecurityExceptionOverride ==
    Returned("is_noise") =>
        /\ (FinanceOrGovernance(call.text) /\ SecurityException(call.text) /\ ~OtherNoise(call.text))
              => ~ret
        /\ (FinanceOrGovernance(call.text) /\ ~SecurityException(call.text))
              => ret

C8_Witness ==
    /\ Returned("is_noise")
    /\ FinanceOrGovernance(call.text)
    /\ SecurityException(call.text)
    /\ ~OtherNoise(call.text)
    /\ ~ret
    /\ is_noise("Nikkei rises as tech stocks rally")

\* the score categories of score_item that the text matches
matched_categories(text) ==
    LET t == lower(text) IN
    { c \in { <<"terror", TERROR_RE>>, <<"violence", VIOLENCE_RE>>, <<"casualty", CASUALTY_RE>>,
              <<"protests", PROTESTS_RE>>, <<"trans_hard", TRANS_HARD_RE>>, <<"cyber", CYBER_RE>>,
              <<"hazards", HAZARDS_RE>>, <<"watchlist", WATCHLIST_RE \cup WATCHLIST_HUBS_RE>> } :
        _any(c[2], t) }

CategoryTable == [t \in ScoreTexts |-> { c[1] : c \in matched_categories(t) }]

ScoreTable == [c \in ScoreCalls |-> score_item(c.text, c.published_ts, c.source_name, c.tnow)]

Age == call.tnow - call.published_ts

\* C10: of two items scored at the same time, with the same matched categories and the
\* same source name, the one published more recently scores at least as much; the score
\* exceeds that of the same item published more than 24 hours ago by 10 when the item is
\* at most 6 hours old, by 5 when at most 24 hours old, by 0 otherwise.
C10_MonotoneInRecency ==
    Returned("score_item") =>
        /\ \A c \in ScoreCalls :
              ( /\ c.tnow = call.tnow
                /\ c.source_name = call.source_name
                /\ c.published_ts >= call.published_ts
                /\ CategoryTable[c.text] = CategoryTable[call.text] )
              => ScoreTable[c] >= ret
        /\ ret - score_item(call.text, call.tnow - 24 * HOUR - 1, call.source_name, call.tnow)
              = (IF Age <= 6 * HOUR THEN 10 ELSE IF Age <= 24 * HOUR THEN 5 ELSE 0)

C10_Witness ==
    /\ Returned("score_item")
    /\ Age = 6 * HOUR + 1
    /\ \E c \in ScoreCalls :
          /\ c.tnow = call.tnow
          /\ c.source_name = call.source_name
          /\ c.text # call.text
          /\ c.published_ts > call.published_ts
          /\ CategoryTable[c.text] = CategoryTable[call.text]
          /\ ScoreTable[c] > ret

(***************************************************************************)
(* Properties of pub_ts and of the gates in the loop body of harvest       *)
(***************************************************************************)
\* the *_parsed value gives no time: absent, or time.mktime fails on it
NoTime(v) == v = <<>> \/ ~mktime_ok(v)

\* the entry reaches the scorer: title and link present, the three gates passed
PassesGates(e) ==
    LET title == strip(e.title)
        link  == strip(e.link)
        text  == title \o " " \o html_unescape(strip(e.summary))
    IN  /\ title # "" /\ link # ""
        /\ ~is_noise(text)
        /\ is_region_relevant(text, link)
        /\ is_high_signal(text)

EntryText(e) == strip(e.title) \o " " \o html_unescape(strip(e.summary))

\* the loop body appended one item for the entry, published at ts and scored with ts
AppendedWith(ts) ==
    /\ Len(items) = 1
    /\ items[1].published_ts = ts
    /\ items[1].score = score_item(EntryText(call.entry), ts, call.entry.source, call.n2)

\* C11 as stated: an entry whose publish timestamp is absent or unparsable, and which
\* passes the gates, is appended with the current time as its published time, used
\* for its score too; it is not dropped.
C11_MissingPublishedIsNow ==
    (Returned("harvest_entry") /\ PassesGates(call.entry) /\ NoTime(call.entry.published_parsed))
        => AppendedWith(call.n1)

\* C11 (amended): an entry that passes the gates and whose publish timestamp is absent
\* or unparsable is appended, not dropped; its published time, used for its score too,
\* is its updated timestamp when that one is present and parsable, and the current
\* time otherwise.
C11_MissingPublishedFallsBack ==
    (Returned("harvest_entry") /\ PassesGates(call.entry) /\ NoTime(call.entry.published_parsed))
        => IF NoTime(call.entry.updated_parsed)
           THEN AppendedWith(call.n1)
           ELSE AppendedWith(mktime(call.entry.updated_parsed))

C11_Witness ==
    /\ Returned("harvest_entry")
    /\ PassesGates(call.entry)
    /\ call.entry.published_parsed = Unconvertible
    /\ call.entry.updated_parsed = <<>> \/ call.entry.updated_parsed = Unconvertible
    /\ call.n1 < call.n2
    /\ AppendedWith(call.n1)
    /\ \E e \in Entries : e.published_parsed = <<>> /\ e.updated_parsed = <<>> /\ PassesGates(e)
    /\ \E e \in Entries : NoTime(e.published_parsed) /\ ~NoTime(e.updated_parsed) /\ PassesGates(e)

\* C12: a text accepted by is_high_signal is scored at least MIN_SCORE_TO_INCLUDE and
\* given a priority 1, 2 or 3, whatever the publish time and the source name; an entry
\* that passed the gates is appended by the loop body, never rejected by the scorer.
C12_SignalImpliesAdmitted ==
    /\ (Returned("score_item") /\ is_high_signal(call.text))
          => ret >= MIN_SCORE_TO_INCLUDE /\ to_priority(ret) \in {1, 2, 3}
    /\ (Returned("harvest_entry") /\ PassesGates(call.entry))
          => /\ Len(items) = 1
             /\ items[1].score >= MIN_SCORE_TO_INCLUDE
             /\ items[1].priority \in {1, 2, 3}

C12_Witness ==
    /\ Returned("score_item")
    /\ is_high_signal(call.text)
    /\ ret = MIN_SCORE_TO_INCLUDE
    /\ to_priority(ret) = 3
    /\ \E c \in ScoreCalls :
          /\ ~is_high_signal(c.text)
          /\ ScoreTable[c] >= P3_THRESHOLD
          /\ ScoreTable[c] < MIN_SCORE_TO_INCLUDE

====
